---- MODULE Spec2Model ----
(***************************************************************************)
(* A model of the KKH nursing chatbot's ingestion and retrieval engine:    *)
(* utils/pdf_processor.py (PDFProcessor) and the orchestration code of     *)
(* app.py and app_deployment.py.                                           *)
(*                                                                         *)
(* Text is a sequence of one-character strings.  A Python dict is a        *)
(* function from its keys (TLA+ strings) to values, None is the record     *)
(* None below.  An embedding vector is a tuple of integers; cosines are    *)
(* compared exactly (as signed squared rationals), so two scores the       *)
(* floating point computation could tell apart only by rounding are ties   *)
(* here.  A call's outcome is a record [raised, value]: raised is "none"   *)
(* when the call returned value, else the name of the exception.           *)
(***************************************************************************)
EXTENDS Integers, Sequences, FiniteSets, TLC

VARIABLES
    knowledge_base,      \* the knowledge base value handed to retrieval
    question_embedding,  \* what the embedding provider gave for the last query
    top_k,               \* the top_k argument of the last retrieval call
    top_indices,         \* the ranked indices of the last retrieval call
    ret,                 \* the outcome of the last call
    op,                  \* the name of the last call ("none" before the first)
    pdf,                 \* the source document: whether it opens, and its pages
    file,                \* the file at the knowledge base path
    persisted,           \* what the last build returned after writing the file
    chat_history,        \* st.session_state.chat_history
    app,                 \* the script run: "app" (app.py) or "app_deployment"
    cache,               \* st.cache_data's entry for load_or_create_knowledge_base
    ingestion,           \* whether the last script run started a build, and
                         \* how the last build ended
    sessions,            \* concurrent sessions: where each one's first run is
    servers,             \* the server processes: program, cache entry, its lock
    chunk_input,         \* the text argument of the last _chunk_text call
    size_input,          \* the chunk_size argument of the last _chunk_text call
    query                \* the question of the last self-match query

vars == <<knowledge_base, question_embedding, top_k, top_indices, ret, op,
          pdf, file, persisted, chat_history, app, cache, ingestion,
          sessions, servers, chunk_input, size_input, query>>

retrievalVars == <<knowledge_base, question_embedding, top_k, top_indices>>
storeVars == <<pdf, file, persisted>>
appVars == <<chat_history, app, cache, ingestion>>
sessionVars == <<sessions, servers>>
inputVars == <<chunk_input, size_input, query>>

(***************************************************************************)
(* Bounds of the model                                                     *)
(***************************************************************************)
MaxChunks == 3   \* longest chunks / embeddings list of an enumerated knowledge base
MaxK == 4        \* largest top_k tried (the smallest is -1)
MaxPages == 2    \* most pages of an enumerated document
MaxHistory == 4  \* most messages of the chat history
Dim == 2         \* dimension of the embedding provider's vectors

Coord == {0, 1}  \* coordinates of the enumerated vectors

(***************************************************************************)
(* Python values                                                           *)
(***************************************************************************)
None == [NoneType |-> TRUE]

\* Python truthiness of a knowledge base value: None and {} are falsy
Truthy(v) == v # None /\ DOMAIN v # {}

Returned(v) == [raised |-> "none", value |-> v]
Raised(e) == [raised |-> e, value |-> None]
NoCall == [raised |-> "nocall", value |-> None]

\* str.join
RECURSIVE Join(_, _)
Join(sep, parts) ==
    IF parts = <<>> THEN <<>>
    ELSE IF Len(parts) = 1 THEN parts[1]
    ELSE parts[1] \o sep \o Join(sep, Tail(parts))

\* seq[::-1]
Reverse(s) == [i \in 1..Len(s) |-> s[Len(s) + 1 - i]]

\* "No knowledge base available."
NoKnowledgeBase ==
    <<"N","o"," ","k","n","o","w","l","e","d","g","e"," ","b","a","s","e"," ",
      "a","v","a","i","l","a","b","l","e",".">>

BlankLine == <<"\n", "\n">>

(***************************************************************************)
(* The source document and the knowledge base file                         *)
(***************************************************************************)
\* pdfplumber: the document opens or not; of each page, extract_text() gives
\* a text (empty: nothing on the page) or fails, extract_tables() gives a
\* list of tables or fails
Page(text, tables) == [text |-> text, tables |-> tables]

ExtractionError == "ExtractionError"

\* no file at pdf_path, and a file there that pdfplumber cannot open
NoPdf == [exists |-> FALSE, opens |-> FALSE, pages |-> <<>>]
BrokenPdf == [exists |-> TRUE, opens |-> FALSE, pages |-> <<>>]
Pdf(pages) == [exists |-> TRUE, opens |-> TRUE, pages |-> pages]

\* st.cache_data: nothing cached yet, or the value a call returned
EmptyCache == [filled |-> FALSE, value |-> None]
Cached(v) == [filled |-> TRUE, value |-> v]

\* the builds of a session: whether its last script run started one, and how
\* the last one ended ("none" before the first)
NoIngestion == [started |-> FALSE, outcome |-> "none"]

\* the file at knowledge_path: absent, present but not accessible, or
\* present with a content (a sequence of JSON tokens)
AbsentFile == [state |-> "absent", content |-> <<>>]
UnreadableFile == [state |-> "unreadable", content |-> <<>>]
PresentFile(content) == [state |-> "present", content |-> content]

(***************************************************************************)
(* Text: the character classes of Python's re (\w, \s) and str.strip, on   *)
(* the ASCII characters                                                    *)
(***************************************************************************)
Whitespace == {" ", "\t", "\n", "\r", "\f"}

WordChars ==
    {"a","b","c","d","e","f","g","h","i","j","k","l","m","n","o","p","q","r","s",
     "t","u","v","w","x","y","z","A","B","C","D","E","F","G","H","I","J","K","L",
     "M","N","O","P","Q","R","S","T","U","V","W","X","Y","Z","0","1","2","3","4",
     "5","6","7","8","9","_"}

\* the punctuation kept by _clean_text: . , ! ? ; : ( ) -
KeptPunctuation == {".", ",", "!", "?", ";", ":", "(", ")", "-"}

\* str.lstrip, str.rstrip, str.strip
RECURSIVE LStrip(_)
LStrip(t) ==
    IF t # <<>> /\ t[1] \in Whitespace THEN LStrip(Tail(t)) ELSE t

RECURSIVE RStrip(_)
RStrip(t) ==
    IF t # <<>> /\ t[Len(t)] \in Whitespace
    THEN RStrip(SubSeq(t, 1, Len(t) - 1)) ELSE t

Strip(t) == LStrip(RStrip(t))

\* line 46: re.sub(r'\s+', ' ', text)
RECURSIVE CollapseWhitespace(_)
CollapseWhitespace(t) ==
    IF t = <<>> THEN <<>>
    ELSE IF t[1] \in Whitespace
    THEN <<" ">> \o CollapseWhitespace(LStrip(t))
    ELSE <<t[1]>> \o CollapseWhitespace(Tail(t))

\* line 48: re.sub(r'[^\w\s.,!?;:()\-]', '', text)
RECURSIVE RemoveSpecial(_)
RemoveSpecial(t) ==
    IF t = <<>> THEN <<>>
    ELSE IF t[1] \in WordChars \cup Whitespace \cup KeptPunctuation
    THEN <<t[1]>> \o RemoveSpecial(Tail(t))
    ELSE RemoveSpecial(Tail(t))

\* _clean_text trimming before the disallowed characters are removed
CleanTextTrimFirst(text) == RemoveSpecial(Strip(CollapseWhitespace(text)))

\* PDFProcessor._clean_text
clean_text(text) == Strip(RemoveSpecial(CollapseWhitespace(text)))

\* does sep occur in t at position i
OccursAt(t, sep, i) ==
    /\ i + Len(sep) - 1 <= Len(t)
    /\ \A j \in 1..Len(sep) : t[i + j - 1] = sep[j]

\* str.split(sep): the pieces between the occurrences of sep, left to right
RECURSIVE Split(_, _)
Split(t, sep) ==
    IF \E i \in 1..Len(t) : OccursAt(t, sep, i)
    THEN LET i == CHOOSE i \in 1..Len(t) :
                     /\ OccursAt(t, sep, i)
                     /\ \A j \in 1..(i - 1) : ~OccursAt(t, sep, j)
         IN <<SubSeq(t, 1, i - 1)>> \o Split(SubSeq(t, i + Len(sep), Len(t)), sep)
    ELSE <<t>>

DotSpace == <<".", " ">>

\* the loop appending a sentence that brings the chunk to chunk_size
RECURSIVE ChunkLoopInclusive(_, _, _, _)
ChunkLoopInclusive(sentences, chunks, current_chunk, chunk_size) ==
    IF sentences = <<>>
    THEN IF current_chunk # <<>>
         THEN Append(chunks, Strip(current_chunk))
         ELSE chunks
    ELSE LET sentence == Head(sentences)
         IN IF Len(current_chunk) + Len(sentence) <= chunk_size
            THEN ChunkLoopInclusive(Tail(sentences), chunks,
                                    current_chunk \o sentence \o DotSpace, chunk_size)
            ELSE ChunkLoopInclusive(Tail(sentences),
                                    IF current_chunk # <<>>
                                    THEN Append(chunks, Strip(current_chunk))
                                    ELSE chunks,
                                    sentence \o DotSpace, chunk_size)

\* the loop comparing the sentence alone with chunk_size
RECURSIVE ChunkLoopSentenceOnly(_, _, _, _)
ChunkLoopSentenceOnly(sentences, chunks, current_chunk, chunk_size) ==
    IF sentences = <<>>
    THEN IF current_chunk # <<>>
         THEN Append(chunks, Strip(current_chunk))
         ELSE chunks
    ELSE LET sentence == Head(sentences)
         IN IF Len(sentence) < chunk_size
            THEN ChunkLoopSentenceOnly(Tail(sentences), chunks,
                                       current_chunk \o sentence \o DotSpace, chunk_size)
            ELSE ChunkLoopSentenceOnly(Tail(sentences),
                                       IF current_chunk # <<>>
                                       THEN Append(chunks, Strip(current_chunk))
                                       ELSE chunks,
                                       sentence \o DotSpace, chunk_size)

\* the loop without the flush at the end of the input
RECURSIVE ChunkLoopNoLastFlush(_, _, _, _)
ChunkLoopNoLastFlush(sentences, chunks, current_chunk, chunk_size) ==
    IF sentences = <<>>
    THEN chunks
    ELSE LET sentence == Head(sentences)
         IN IF Len(current_chunk) + Len(sentence) < chunk_size
            THEN ChunkLoopNoLastFlush(Tail(sentences), chunks,
                                      current_chunk \o sentence \o DotSpace, chunk_size)
            ELSE ChunkLoopNoLastFlush(Tail(sentences),
                                      IF current_chunk # <<>>
                                      THEN Append(chunks, Strip(current_chunk))
                                      ELSE chunks,
                                      sentence \o DotSpace, chunk_size)

\* lines 57-63: the loop of _chunk_text over the sentences left, with the
\* chunks made so far and the current chunk
RECURSIVE ChunkLoop(_, _, _, _)
ChunkLoop(sentences, chunks, current_chunk, chunk_size) ==
    IF sentences = <<>>
    THEN IF current_chunk # <<>>
         THEN Append(chunks, Strip(current_chunk))
         ELSE chunks
    ELSE LET sentence == Head(sentences)
         IN IF Len(current_chunk) + Len(sentence) < chunk_size
            THEN ChunkLoop(Tail(sentences), chunks,
                           current_chunk \o sentence \o DotSpace, chunk_size)
            ELSE ChunkLoop(Tail(sentences),
                           IF current_chunk # <<>>
                           THEN Append(chunks, Strip(current_chunk))
                           ELSE chunks,
                           sentence \o DotSpace, chunk_size)

\* PDFProcessor._chunk_text
chunk_text(text, chunk_size) ==
    ChunkLoop(Split(text, DotSpace), <<>>, <<>>, chunk_size)

\* the default of the chunk_size parameter
DefaultChunkSize == 500

(***************************************************************************)
(* Tables: a table is a sequence of rows, a row a sequence of cells, a     *)
(* cell a text or NoCell (None).  A row or a table may be empty.           *)
(***************************************************************************)
NoCell == <<"\\0">>

\* line 78: str(cell).strip() if cell else ""
CleanCell(cell) == IF cell = NoCell \/ cell = <<>> THEN <<>> ELSE Strip(cell)

CleanRow(row) == [i \in 1..Len(row) |-> CleanCell(row[i])]

\* any() taken as the row having a cell at all
AnyCellPresent(clean_row) == clean_row # <<>>

\* line 79: any(clean_row)
AnyCell(clean_row) == \E i \in 1..Len(clean_row) : clean_row[i] # <<>>

\* lines 76-80
RECURSIVE TextParts(_)
TextParts(table) ==
    IF table = <<>> THEN <<>>
    ELSE LET row == Head(table)
         IN IF row # <<>> /\ AnyCell(CleanRow(row))
            THEN <<Join(<<" ", "|", " ">>, CleanRow(row))>> \o TextParts(Tail(table))
            ELSE TextParts(Tail(table))

\* PDFProcessor._table_to_text
table_to_text(table) ==
    IF table = <<>> THEN <<>> ELSE Join(<<"\n">>, TextParts(table))

(***************************************************************************)
(* Vectors and cosine similarity (sklearn.metrics.pairwise)                *)
(***************************************************************************)
VectorsOfDim(d) == [1..d -> Coord]

RECURSIVE DotUpTo(_, _, _)
DotUpTo(a, b, n) == IF n = 0 THEN 0 ELSE DotUpTo(a, b, n - 1) + a[n] * b[n]

Dot(a, b) == DotUpTo(a, b, Len(a))

Norm2(a) == Dot(a, a)

\* the cosine dividing by the norms as they are: 0/0 for a zero vector
CosineUnguarded(a, b) ==
    LET d == Dot(a, b)
    IN [num |-> IF d < 0 THEN -(d * d) ELSE d * d, den |-> Norm2(a) * Norm2(b)]

\* sklearn's normalize() divides by the norm, with a zero norm replaced by 1:
\* a zero vector stays zero and its cosine with anything is 0.
\* The cosine is kept as the rational sign(dot) * dot^2 / (|a|^2 * |b|^2).
cosine_similarity(a, b) ==
    LET d == Dot(a, b)
        na == IF Norm2(a) = 0 THEN 1 ELSE Norm2(a)
        nb == IF Norm2(b) = 0 THEN 1 ELSE Norm2(b)
    IN [num |-> IF d < 0 THEN -(d * d) ELSE d * d, den |-> na * nb]

SimLeq(x, y) == x.num * y.den <= y.num * x.den
SimEq(x, y) == x.num * y.den = y.num * x.den
SimLess(x, y) == x.num * y.den < y.num * x.den

(***************************************************************************)
(* numpy: argsort and slicing                                              *)
(***************************************************************************)
Permutations1(n) ==
    {p \in [1..n -> 1..n] : \A i, j \in 1..n : i # j => p[i] # p[j]}

\* the indices in descending order of score
ArgsortDescending(sims) ==
    {p \in Permutations1(Len(sims)) :
        \A a, b \in 1..Len(sims) : a < b => SimLeq(sims[p[b]], sims[p[a]])}

\* np.argsort(similarities): the indices in ascending order of score.  The
\* default kind ("quicksort") is not a stable sort: the order of the indices
\* of equal scores is whatever the build's sort produces.
argsort(sims) ==
    {p \in Permutations1(Len(sims)) :
        \A a, b \in 1..Len(sims) : a < b => SimLeq(sims[p[a]], sims[p[b]])}

\* Python's s[a:]: a negative start counts from the end, and both are clamped
PySliceFrom(s, a) ==
    LET n == Len(s)
        start == IF a < 0 THEN (IF n + a < 0 THEN 0 ELSE n + a)
                 ELSE (IF a > n THEN n ELSE a)
    IN [i \in 1..(n - start) |-> s[start + i]]

(***************************************************************************)
(* The embedding provider (SentenceTransformer.encode), an external        *)
(* collaborator: for a query it gives a vector of its dimension, or fails. *)
(* A knowledge base read from a file may have been built by a provider of  *)
(* another dimension: the stored vectors have dimension Dim, the provider  *)
(* answering the query has Dim or Dim + 1.                                 *)
(***************************************************************************)
ProviderError == "ProviderError"

EncodeOutcomes ==
    {Returned(v) : v \in VectorsOfDim(Dim) \cup {[i \in 1..(Dim + 1) |-> 1]}}
        \cup {Raised(ProviderError)}

(***************************************************************************)
(* PDFProcessor.find_relevant_chunk                                        *)
(***************************************************************************)
\* np.array(knowledge_base["embeddings"]) is a 2-D array iff the list is not
\* empty and its rows have one length
Is2D(stored) ==
    /\ Len(stored) > 0
    /\ \A i \in 1..Len(stored) : Len(stored[i]) = Len(stored[1])

\* line 138: one score per stored vector
similarities(qv, stored) ==
    [i \in 1..Len(stored) |-> cosine_similarity(qv, stored[i])]

\* line 139: np.argsort(similarities)[-top_k:][::-1], for one argsort result
TopIndicesNoReverse(order, k) == PySliceFrom(order, -k)

TopIndices(order, k) == Reverse(PySliceFrom(order, -k))

\* lines 141-145
RelevantChunks(kb, top) ==
    IF \E i \in 1..Len(top) : top[i] > Len(kb.chunks)
    THEN Raised("IndexError")
    ELSE Returned(Join(BlankLine, [i \in 1..Len(top) |-> kb.chunks[top[i]]]))

GuardMissesNone(kb) == kb # None /\ (DOMAIN kb = {} \/ "chunks" \notin DOMAIN kb)

\* line 132: not knowledge_base or "chunks" not in knowledge_base
NoKnowledgeBaseGuard(kb) == ~Truthy(kb) \/ "chunks" \notin DOMAIN kb

\* The outcomes of find_relevant_chunk(question, knowledge_base, top_k) when
\* the provider's outcome for the question is enc: records [ret, qv, top],
\* qv being NoCall when the provider was not called.
find_relevant_chunk(kb, enc, k) ==
    IF NoKnowledgeBaseGuard(kb)
    THEN {[ret |-> Returned(NoKnowledgeBase), qv |-> NoCall, top |-> <<>>]}
    ELSE IF enc.raised # "none"
    THEN {[ret |-> enc, qv |-> enc, top |-> <<>>]}
    ELSE IF "embeddings" \notin DOMAIN kb
    THEN {[ret |-> Raised("KeyError"), qv |-> enc, top |-> <<>>]}
    ELSE IF ~Is2D(kb.embeddings) \/ Len(enc.value) # Len(kb.embeddings[1])
    THEN {[ret |-> Raised("ValueError"), qv |-> enc, top |-> <<>>]}
    ELSE {[ret |-> RelevantChunks(kb, TopIndices(order, k)), qv |-> enc,
           top |-> TopIndices(order, k)] :
              order \in argsort(similarities(enc.value, kb.embeddings))}

(***************************************************************************)
(* Retrieval as a function of its arguments: every knowledge base value a  *)
(* caller can hold (None, {}, a dict read from a file, with or without     *)
(* its fields, with lists of equal or unequal length), every provider      *)
(* outcome and every top_k.                                                *)
(***************************************************************************)
Letters == <<"A", "B", "C", "D", "E", "F">>

ChunkList(n) == [i \in 1..n |-> <<Letters[i]>>]

EmbeddingLists == UNION {[1..n -> VectorsOfDim(Dim)] : n \in 0..MaxChunks}

Metadata(ntext, ntable) ==
    [total_chunks |-> ntext + ntable, text_chunks |-> ntext, table_chunks |-> ntable]

EmptyDict == [x \in {} |-> None]

KnowledgeBases ==
    {None, EmptyDict}
    \cup {[chunks |-> ChunkList(n)] : n \in 0..MaxChunks}
    \cup {[embeddings |-> es] : es \in {e \in EmbeddingLists : Len(e) <= 1}}
    \cup {[chunks |-> ChunkList(n), embeddings |-> es, metadata |-> Metadata(n, 0)] :
            n \in 0..MaxChunks, es \in EmbeddingLists}

TopKs == (0 - 1)..MaxK

InitRetrieve ==
    /\ knowledge_base \in
         {kb \in KnowledgeBases :
            ("chunks" \in DOMAIN kb /\ "embeddings" \in DOMAIN kb)
               => \/ Len(kb.chunks) = Len(kb.embeddings)
                  \/ Len(kb.chunks) = Len(kb.embeddings) - 1 /\ Len(kb.chunks) <= 1}
    /\ question_embedding = NoCall
    /\ top_k = 1
    /\ query = <<>>
    /\ top_indices = <<>>
    /\ ret = NoCall
    /\ op = "none"
    /\ pdf = NoPdf
    /\ file = AbsentFile
    /\ persisted = None
    /\ chat_history = <<>>
    /\ app = "app"
    /\ cache = EmptyCache
    /\ ingestion = NoIngestion
    /\ sessions = <<>>
    /\ servers = <<>>
    /\ chunk_input = <<>>
    /\ size_input = DefaultChunkSize

\* one call of find_relevant_chunk on the arguments drawn
FindRelevantChunk ==
    /\ ret = NoCall
    /\ \E enc \in EncodeOutcomes, k \in TopKs :
        \E o \in find_relevant_chunk(knowledge_base, enc, k) :
            /\ ret' = o.ret
            /\ question_embedding' = o.qv
            /\ top_indices' = o.top
            /\ top_k' = k
            /\ op' = "find_relevant_chunk"
            /\ UNCHANGED <<knowledge_base, storeVars, appVars, sessionVars, inputVars>>

\* one call of find_relevant_chunk(chunk, knowledge_base, 1) with the text of
\* a chunk of the knowledge base as the question, the knowledge base being
\* one built with the provider answering: the provider is deterministic and
\* gives for the question the vector it gave for the chunk
FindOwnChunk ==
    /\ ret = NoCall
    /\ Truthy(knowledge_base)
    /\ "chunks" \in DOMAIN knowledge_base /\ "embeddings" \in DOMAIN knowledge_base
    /\ Len(knowledge_base.chunks) = Len(knowledge_base.embeddings)
    /\ \E i \in 1..Len(knowledge_base.chunks) :
        \E o \in find_relevant_chunk(knowledge_base,
                                     Returned(knowledge_base.embeddings[i]), 1) :
            /\ query' = knowledge_base.chunks[i]
            /\ ret' = o.ret
            /\ question_embedding' = o.qv
            /\ top_indices' = o.top
            /\ top_k' = 1
            /\ op' = "find_own_chunk"
            /\ UNCHANGED <<knowledge_base, storeVars, appVars, sessionVars,
                           chunk_input, size_input>>

NextRetrieve == FindRelevantChunk

SpecRetrieve == InitRetrieve /\ [][NextRetrieve]_vars

\* the self-match queries alone, on the same knowledge bases
NextSelfMatch == FindOwnChunk

SpecSelfMatch == InitRetrieve /\ [][NextSelfMatch]_vars

(***************************************************************************)
(* Claims about find_relevant_chunk, checked under SpecRetrieve            *)
(***************************************************************************)
Called == ret # NoCall

HasLists(kb) == "chunks" \in DOMAIN kb /\ "embeddings" \in DOMAIN kb

\* the provider answered the last query with a vector
Embedded == question_embedding.raised = "none"

\* a call on a non-empty knowledge base whose lists have one length, with a
\* query vector of the stored dimension
WellFormedCall ==
    /\ Called
    /\ HasLists(knowledge_base)
    /\ Len(knowledge_base.chunks) = Len(knowledge_base.embeddings)
    /\ Len(knowledge_base.chunks) >= 1
    /\ Embedded
    /\ Len(question_embedding.value) = Len(knowledge_base.embeddings[1])

\* the score of stored vector i for the last query
Score(i) == cosine_similarity(question_embedding.value, knowledge_base.embeddings[i])

Ranked(i) == \E a \in 1..Len(top_indices) : top_indices[a] = i

RankOf(i) == CHOOSE a \in 1..Len(top_indices) : top_indices[a] = i

Min(a, b) == IF a < b THEN a ELSE b
Max(a, b) == IF a > b THEN a ELSE b

\* the text returned is the one-letter chunks of top_indices, in that order,
\* with a blank line ("\n\n") between two of them
ValueSpellsTopIndices ==
    /\ ret.raised = "none"
    /\ Len(ret.value) = IF top_indices = <<>> THEN 0 ELSE 3 * Len(top_indices) - 2
    /\ \A a \in 1..Len(top_indices) :
          /\ ret.value[3 * a - 2] = Letters[top_indices[a]]
          /\ a > 1 => ret.value[3 * a - 4] = "\n" /\ ret.value[3 * a - 3] = "\n"

\* C1: with the knowledge base None, find_relevant_chunk returns the sentinel
\* "No knowledge base available.", raises nothing and does not call the
\* embedding provider, for every query and every top_k.
C1_AbsentGivesSentinel ==
    (Called /\ knowledge_base = None)
        => ret = Returned(NoKnowledgeBase) /\ question_embedding = NoCall

C1_Witness == Called /\ knowledge_base = None /\ top_k = 0 - 1

\* C2 (as claimed): with a knowledge base that is present but whose chunks
\* and embeddings lists are empty, find_relevant_chunk returns the sentinel
\* and never raises (stated for the calls in which the provider does not fail).
C2_EmptyListsGiveSentinel ==
    (/\ Called
     /\ question_embedding.raised # ProviderError
     /\ HasLists(knowledge_base)
     /\ knowledge_base.chunks = <<>>
     /\ knowledge_base.embeddings = <<>>)
        => ret = Returned(NoKnowledgeBase)

\* C3: on a non-empty knowledge base with 1 <= top_k <= len(chunks), the
\* result is the texts of top_k distinct chunks, no chunk left out scores
\* higher than one returned, the chunks are in descending order of score,
\* and they are joined by "\n\n".
C3_TopKBestFirst ==
    (WellFormedCall /\ 1 <= top_k /\ top_k <= Len(knowledge_base.chunks))
        => /\ Len(top_indices) = top_k
           /\ \A a \in 1..top_k : top_indices[a] \in 1..Len(knowledge_base.chunks)
           /\ \A a, b \in 1..top_k : a # b => top_indices[a] # top_indices[b]
           /\ \A a, b \in 1..top_k :
                 a < b => SimLeq(Score(top_indices[b]), Score(top_indices[a]))
           /\ \A j \in 1..Len(knowledge_base.chunks) :
                 ~Ranked(j) =>
                     \A a \in 1..top_k : SimLeq(Score(j), Score(top_indices[a]))
           /\ ValueSpellsTopIndices

\* three chunks of three different scores, the best one stored last, top_k = 2
C3_Witness ==
    /\ WellFormedCall
    /\ top_k = 2
    /\ Len(knowledge_base.chunks) = 3
    /\ SimLess(Score(1), Score(2))
    /\ SimLess(Score(2), Score(3))
    /\ top_indices = <<3, 2>>

\* C4 (as claimed): chunks of equal score are ranked in ascending order of
\* their index: of two such chunks i < j, j is returned only if i is, and
\* then after i.
C4_TiesAscendingIndex ==
    (WellFormedCall /\ 1 <= top_k /\ top_k <= Len(knowledge_base.chunks))
        => \A i, j \in 1..Len(knowledge_base.chunks) :
              (i < j /\ SimEq(Score(i), Score(j)) /\ Ranked(j))
                  => Ranked(i) /\ RankOf(i) < RankOf(j)

\* C5 (as claimed): top_k is clamped to [0, len(chunks)]: the result has
\* exactly min(max(top_k, 0), len(chunks)) chunks.
C5_TopKClamped ==
    WellFormedCall
        => Len(top_indices) = Min(Max(top_k, 0), Len(knowledge_base.chunks))

\* C6 (as claimed): when the query vector's length differs from the dimension
\* of the stored vectors, find_relevant_chunk returns the sentinel without an
\* exception and leaves the knowledge base unchanged.
C6_DimensionMismatchGivesSentinel ==
    [][(/\ Called'
        /\ HasLists(knowledge_base)
        /\ Len(knowledge_base.chunks) = Len(knowledge_base.embeddings)
        /\ Is2D(knowledge_base.embeddings)
        /\ Embedded'
        /\ Len(question_embedding'.value) # Len(knowledge_base.embeddings[1]))
           => /\ ret' = Returned(NoKnowledgeBase)
              /\ knowledge_base' = knowledge_base]_vars

\* a vector of zero norm
ZeroVector(v) == \A i \in 1..Len(v) : v[i] = 0

\* a score that is the number 0: 0 over a positive denominator
IsZero(x) == x.num = 0 /\ x.den > 0

\* C26: zero-vector guard.  When the query vector or a stored vector has
\* zero norm the score of that pair is the number 0, and the call raises
\* nothing: with top_k >= 1 it returns min(top_k, len(chunks)) chunks, best
\* first.
C26_ZeroVectorScoresZero ==
    (/\ WellFormedCall
     /\ top_k >= 1
     /\ \/ ZeroVector(question_embedding.value)
        \/ \E i \in 1..Len(knowledge_base.embeddings) :
              ZeroVector(knowledge_base.embeddings[i]))
        => /\ \A i \in 1..Len(knowledge_base.embeddings) :
                 /\ Score(i).den > 0
                 /\ (\/ ZeroVector(question_embedding.value)
                     \/ ZeroVector(knowledge_base.embeddings[i])) => IsZero(Score(i))
           /\ ret.raised = "none"
           /\ Len(top_indices) = Min(top_k, Len(knowledge_base.chunks))
           /\ \A a, b \in 1..Len(top_indices) :
                 a < b => SimLeq(Score(top_indices[b]), Score(top_indices[a]))
           /\ ValueSpellsTopIndices

\* a zero vector stored first and a vector matching the query stored second:
\* the second chunk is returned
C26_Witness ==
    /\ WellFormedCall
    /\ top_k = 1
    /\ Len(knowledge_base.chunks) = 2
    /\ ZeroVector(knowledge_base.embeddings[1])
    /\ ~ZeroVector(question_embedding.value)
    /\ knowledge_base.embeddings[2] = question_embedding.value
    /\ IsZero(Score(1))
    /\ top_indices = <<2>>

\* the cosine of a and b is 1: b is a positive multiple of a
Parallel(a, b) == Dot(a, b) > 0 /\ Dot(a, b) * Dot(a, b) = Norm2(a) * Norm2(b)

\* the chunks whose text is the question
Asked == {i \in 1..Len(knowledge_base.chunks) : knowledge_base.chunks[i] = query}

SelfQuery ==
    /\ op = "find_own_chunk"
    /\ \A i, j \in 1..Len(knowledge_base.chunks) :
          i # j => knowledge_base.chunks[i] # knowledge_base.chunks[j]

\* C27 (as claimed): self-match.  On a knowledge base of pairwise distinct
\* chunk texts, the query with the text of chunk i and top_k = 1 returns
\* chunk i.
C27_SelfMatch ==
    SelfQuery => \A i \in Asked : top_indices = <<i>> /\ ret = Returned(query)

\* the stored vector of chunk i is not zero and no other stored vector is a
\* positive multiple of it
Distinguished(i) ==
    /\ ~ZeroVector(knowledge_base.embeddings[i])
    /\ \A j \in 1..Len(knowledge_base.embeddings) :
          j # i => ~Parallel(knowledge_base.embeddings[i], knowledge_base.embeddings[j])

\* C27 (amended): the same, for a chunk whose stored vector is not zero and
\* has no positive multiple among the other stored vectors.
C27_SelfMatchDistinguished ==
    (SelfQuery /\ Is2D(knowledge_base.embeddings))
        => \A i \in Asked :
              Distinguished(i) => top_indices = <<i>> /\ ret = Returned(query)

\* the first of three chunks asked for, the other two sharing a vector
C27_Witness ==
    /\ SelfQuery
    /\ Len(knowledge_base.chunks) = 3
    /\ Asked = {1}
    /\ Distinguished(1)
    /\ knowledge_base.embeddings[2] = knowledge_base.embeddings[3]
    /\ top_indices = <<1>>
    /\ ret = Returned(knowledge_base.chunks[1])

(***************************************************************************)
(* PDFProcessor.extract_text_and_tables                                    *)
(***************************************************************************)
\* lines 32-36: the table chunks of one page's tables
RECURSIVE TableChunks(_)
TableChunks(tables) ==
    IF tables = <<>> THEN <<>>
    ELSE LET table == Head(tables)
         IN IF table # <<>> /\ Strip(table_to_text(table)) # <<>>
            THEN <<table_to_text(table)>> \o TableChunks(Tail(tables))
            ELSE TableChunks(Tail(tables))

\* lines 23-28: the text chunks of one page's text
PageTextChunks(text) ==
    IF text # <<>> THEN chunk_text(clean_text(text), DefaultChunkSize) ELSE <<>>

ExtractedData(text_chunks, table_chunks) ==
    [text_chunks |-> text_chunks, table_chunks |-> table_chunks]

\* lines 21-39: the loop over the pages left; the try encloses the loop, so
\* the first exception ends it with what was extracted so far
RECURSIVE PageLoop(_, _)
PageLoop(pages, data) ==
    IF pages = <<>> THEN data
    ELSE LET page == Head(pages)
             with_text == ExtractedData(
                            data.text_chunks \o PageTextChunks(page.text.value),
                            data.table_chunks)
         IN IF page.text.raised # "none" THEN data
            ELSE IF page.tables.raised # "none" THEN with_text
            ELSE PageLoop(Tail(pages),
                    ExtractedData(with_text.text_chunks,
                                  with_text.table_chunks \o TableChunks(page.tables.value)))

extract_text_and_tables(doc) ==
    IF ~doc.opens THEN ExtractedData(<<>>, <<>>)
    ELSE PageLoop(doc.pages, ExtractedData(<<>>, <<>>))

(***************************************************************************)
(* Extraction as a function of the document                                *)
(***************************************************************************)
NameAgeTable == << << <<"N">>, <<"A">> >>, << <<"T">>, <<"5">> >> >>

\* a table with an empty row, a row of empty cells and a cell holding a quote
RaggedTable == << <<>>, << NoCell, <<>> >>, << <<" ", "\"", "x">>, NoCell >> >>

PageTexts ==
    {Returned(<<>>),
     Returned(<<"a", ".", " ", "b">>),
     Returned(<<"c", " ", "#", " ", "d">>),
     Raised(ExtractionError)}

PageTables ==
    {Returned(<<>>),
     Returned(<<NameAgeTable, RaggedTable>>),
     Raised(ExtractionError)}

Pages == {Page(t, ts) : t \in PageTexts, ts \in PageTables}

Documents ==
    {NoPdf, BrokenPdf} \cup
    {Pdf(ps) : ps \in UNION {[1..n -> Pages] : n \in 0..MaxPages}}

InitExtract ==
    /\ pdf \in Documents
    /\ knowledge_base = None
    /\ question_embedding = NoCall
    /\ top_k = 1
    /\ query = <<>>
    /\ top_indices = <<>>
    /\ ret = NoCall
    /\ op = "none"
    /\ file = AbsentFile
    /\ persisted = None
    /\ chat_history = <<>>
    /\ app = "app"
    /\ cache = EmptyCache
    /\ chat_history = <<>>
    /\ app = "app"
    /\ cache = EmptyCache
    /\ ingestion = NoIngestion
    /\ sessions = <<>>
    /\ servers = <<>>
    /\ chunk_input = <<>>
    /\ size_input = DefaultChunkSize

\* one call of extract_text_and_tables on the document drawn
ExtractTextAndTables ==
    /\ op = "none"
    /\ ret' = Returned(extract_text_and_tables(pdf))
    /\ op' = "extract_text_and_tables"
    /\ UNCHANGED <<retrievalVars, storeVars, appVars, sessionVars, inputVars>>

NextExtract == ExtractTextAndTables

SpecExtract == InitExtract /\ [][NextExtract]_vars

(***************************************************************************)
(* Claims about extract_text_and_tables, checked under SpecExtract         *)
(***************************************************************************)
InSeq(x, seq) == \E i \in 1..Len(seq) : seq[i] = x

PageFails(page) == page.text.raised # "none" \/ page.tables.raised # "none"

\* C10 (as claimed): a failure on one page is recovered locally: the text
\* and table chunks of every page that does not fail, before or after a
\* failing one, are in the extractor's result.
C10_OtherPagesKept ==
    (op = "extract_text_and_tables" /\ pdf.opens)
        => \A p \in 1..Len(pdf.pages) :
              ~PageFails(pdf.pages[p])
                  => /\ \A c \in 1..Len(PageTextChunks(pdf.pages[p].text.value)) :
                           InSeq(PageTextChunks(pdf.pages[p].text.value)[c],
                                 ret.value.text_chunks)
                     /\ \A c \in 1..Len(TableChunks(pdf.pages[p].tables.value)) :
                           InSeq(TableChunks(pdf.pages[p].tables.value)[c],
                                 ret.value.table_chunks)

(***************************************************************************)
(* Table chunks as a function of the table: a document of one page whose   *)
(* extract_tables returns one table, every table up to a number of rows    *)
(* and of cells in a row, over a missing cell, a blank cell and a padded   *)
(* cell of two lines.                                                      *)
(***************************************************************************)
MaxRows == 2    \* most rows of an enumerated table
MaxCols == 2    \* most cells of an enumerated row

Cells == {NoCell, <<" ">>, <<" ", "x", "\n", "y">>}

Rows == UNION {[1..n -> Cells] : n \in 0..MaxCols}

Tables == UNION {[1..n -> Rows] : n \in 0..MaxRows}

TablePage(table) == Page(Returned(<<>>), Returned(<<table>>))

InitTable ==
    /\ pdf \in {Pdf(<<TablePage(t)>>) : t \in Tables}
    /\ knowledge_base = None
    /\ question_embedding = NoCall
    /\ top_k = 1
    /\ query = <<>>
    /\ top_indices = <<>>
    /\ ret = NoCall
    /\ op = "none"
    /\ file = AbsentFile
    /\ persisted = None
    /\ chat_history = <<>>
    /\ app = "app"
    /\ cache = EmptyCache
    /\ ingestion = NoIngestion
    /\ sessions = <<>>
    /\ servers = <<>>
    /\ chunk_input = <<>>
    /\ size_input = DefaultChunkSize

NextTable == ExtractTextAndTables

SpecTable == InitTable /\ [][NextTable]_vars

(***************************************************************************)
(* Claims about the table chunks, checked under SpecTable                  *)
(***************************************************************************)
TheTable == pdf.pages[1].tables.value[1]

\* a cell that is missing or the empty string, and a cell with nothing but
\* whitespace besides
EmptyCell(cell) == cell = NoCell \/ cell = <<>>
BlankCell(cell) == EmptyCell(cell) \/ \A i \in 1..Len(cell) : cell[i] \in Whitespace

EmptyRow(row) == \A i \in 1..Len(row) : EmptyCell(row[i])
BlankRow(row) == \A i \in 1..Len(row) : BlankCell(row[i])

Lines(t) == Split(t, <<"\n">>)

\* a cell as the chunk shows it: a missing cell as the empty string, any
\* other without the whitespace around it
Shown(cell) == IF EmptyCell(cell) THEN <<>> ELSE Strip(cell)

ShownRow(row) == Join(<<" ", "|", " ">>, [i \in 1..Len(row) |-> Shown(row[i])])

\* C22 (as claimed): a table with rows, none of them blank, becomes exactly
\* one chunk with one line per row, line i being the cells of row i joined
\* by " | ".
C22_OneLinePerRow ==
    (/\ op = "extract_text_and_tables"
     /\ TheTable # <<>>
     /\ \A r \in 1..Len(TheTable) : ~BlankRow(TheTable[r]))
        => /\ Len(ret.value.table_chunks) = 1
           /\ Len(Lines(ret.value.table_chunks[1])) = Len(TheTable)
           /\ \A r \in 1..Len(TheTable) :
                 Lines(ret.value.table_chunks[1])[r] = ShownRow(TheTable[r])

\* the table without its rows of empty cells
RECURSIVE WithoutEmptyRows(_)
WithoutEmptyRows(table) ==
    IF table = <<>> THEN <<>>
    ELSE IF EmptyRow(Head(table)) THEN WithoutEmptyRows(Tail(table))
    ELSE <<Head(table)>> \o WithoutEmptyRows(Tail(table))

\* C23: empty tables give no chunk and rows of empty cells are dropped.  A
\* table without rows, or with empty or missing cells only, adds nothing to
\* table_chunks; any other table gives the chunk it gives without its rows
\* of empty cells, and that chunk has no empty line.
C23_EmptyRowsDropped ==
    op = "extract_text_and_tables"
        => /\ (\A r \in 1..Len(TheTable) : EmptyRow(TheTable[r]))
                 => ret.value.table_chunks = <<>>
           /\ ret.value.table_chunks = TableChunks(<<WithoutEmptyRows(TheTable)>>)
           /\ \A c \in 1..Len(ret.value.table_chunks) :
                 \A l \in 1..Len(Lines(ret.value.table_chunks[c])) :
                    Lines(ret.value.table_chunks[c])[l] # <<>>

\* a table of a row of missing cells and a row with a cell to show, giving
\* a chunk of the second row alone
C23_Witness ==
    /\ op = "extract_text_and_tables"
    /\ Len(TheTable) = 2
    /\ TheTable[1] # <<>> /\ EmptyRow(TheTable[1])
    /\ ~BlankRow(TheTable[2])
    /\ Len(ret.value.table_chunks) = 1
    /\ ret.value.table_chunks[1] = ShownRow(TheTable[2])

(***************************************************************************)
(* _chunk_text as a function of its arguments: every normalized text (a    *)
(* text _clean_text leaves as it is) up to a length, every small           *)
(* chunk_size and the default.                                             *)
(***************************************************************************)
MaxTextLen == 8     \* longest text given to _chunk_text
MaxChunkSize == 6   \* largest chunk_size tried besides the default

TextChars == {"a", ".", " "}

Texts == UNION {[1..n -> TextChars] : n \in 0..MaxTextLen}

NormalizedTexts == {t \in Texts : clean_text(t) = t}

InitChunk ==
    /\ chunk_input \in NormalizedTexts
    /\ size_input \in (1..MaxChunkSize) \cup {DefaultChunkSize}
    /\ ret = NoCall
    /\ op = "none"
    /\ pdf = NoPdf
    /\ file = AbsentFile
    /\ persisted = None
    /\ knowledge_base = None
    /\ question_embedding = NoCall
    /\ top_k = 1
    /\ query = <<>>
    /\ top_indices = <<>>
    /\ chat_history = <<>>
    /\ app = "app"
    /\ cache = EmptyCache
    /\ ingestion = NoIngestion
    /\ sessions = <<>>
    /\ servers = <<>>

\* a call of _chunk_text
ChunkText ==
    /\ op = "none"
    /\ ret' = Returned(chunk_text(chunk_input, size_input))
    /\ op' = "chunk_text"
    /\ UNCHANGED <<retrievalVars, storeVars, appVars, sessionVars, inputVars>>

NextChunk == ChunkText

SpecChunk == InitChunk /\ [][NextChunk]_vars

(***************************************************************************)
(* Claims about _chunk_text, checked under SpecChunk                       *)
(***************************************************************************)
\* the sentences of the text, and the sentences joined into chunk c: a chunk
\* is its sentences, each followed by ". ", less the last space
Sentences == Split(chunk_input, DotSpace)

SentencesIn(c) ==
    SubSeq(Split(c \o <<" ">>, DotSpace), 1, Len(Split(c \o <<" ">>, DotSpace)) - 1)

AllShorter == \A i \in 1..Len(Sentences) : Len(Sentences[i]) < size_input

MaxSentenceLength ==
    CHOOSE n \in 0..Len(chunk_input) :
        /\ \E i \in 1..Len(Sentences) : Len(Sentences[i]) = n
        /\ \A i \in 1..Len(Sentences) : Len(Sentences[i]) <= n

\* the length of the buffer holding the first m sentences of ss
RECURSIVE BufferLen(_, _)
BufferLen(ss, m) == IF m = 0 THEN 0 ELSE BufferLen(ss, m - 1) + Len(ss[m]) + 2

\* C20: soft size bound.  For a normalized text whose sentences are all
\* shorter than chunk_size, every chunk but the last is shorter than
\* chunk_size plus the longest sentence, and no sentence was appended to a
\* buffer with which it reached chunk_size (the buffer was flushed first).
C20_SoftSizeBound ==
    (op = "chunk_text" /\ AllShorter)
        => /\ \A k \in 1..(Len(ret.value) - 1) :
                 Len(ret.value[k]) < size_input + MaxSentenceLength
           /\ \A k \in 1..Len(ret.value) :
                 \A m \in 2..Len(SentencesIn(ret.value[k])) :
                    BufferLen(SentencesIn(ret.value[k]), m - 1)
                        + Len(SentencesIn(ret.value[k])[m]) < size_input

\* three chunks or more, one before the last holding two sentences
C20_Witness ==
    /\ op = "chunk_text" /\ AllShorter
    /\ Len(ret.value) >= 3
    /\ \E k \in 1..(Len(ret.value) - 1) : Len(SentencesIn(ret.value[k])) >= 2

\* the sentences of all the chunks, chunk after chunk
RECURSIVE SentencesOfChunks(_)
SentencesOfChunks(chunks) ==
    IF chunks = <<>> THEN <<>>
    ELSE SentencesIn(Head(chunks)) \o SentencesOfChunks(Tail(chunks))

\* the number of sentences in the first k chunks
RECURSIVE SentencesBefore(_, _)
SentencesBefore(chunks, k) ==
    IF k = 0 THEN 0
    ELSE SentencesBefore(chunks, k - 1) + Len(SentencesIn(chunks[k]))

\* the chunks holding the i-th sentence of the text
ChunksHolding(i) ==
    {k \in 1..Len(ret.value) :
        /\ SentencesBefore(ret.value, k - 1) < i
        /\ i <= SentencesBefore(ret.value, k)}

Oversized(i) == Len(Sentences[i]) >= size_input

\* C21: a sentence at least chunk_size long is a chunk of its own.  Exactly
\* one chunk holds it, that chunk is the sentence followed by a period, whole,
\* and holds no other sentence.
C21_OversizedSentenceAlone ==
    op = "chunk_text"
        => \A i \in 1..Len(Sentences) :
              Oversized(i)
                  => /\ Cardinality(ChunksHolding(i)) = 1
                     /\ \A k \in ChunksHolding(i) :
                           /\ SentencesIn(ret.value[k]) = <<Sentences[i]>>
                           /\ ret.value[k] = Sentences[i] \o <<".">>

\* an oversized sentence between two shorter ones
C21_Witness ==
    /\ op = "chunk_text"
    /\ \E i \in 2..(Len(Sentences) - 1) :
          /\ Oversized(i)
          /\ ~Oversized(i - 1) /\ ~Oversized(i + 1)
          /\ ret.value[CHOOSE k \in ChunksHolding(i) : TRUE] = Sentences[i] \o <<".">>

\* C28: the chunker conserves sentences.  The sentences of the chunks, chunk
\* after chunk, are the sentences of the text: none lost, none twice, in the
\* order of the text.
C28_SentencesConserved ==
    op = "chunk_text" => SentencesOfChunks(ret.value) = Sentences

\* three sentences or more spread over two chunks or more, one chunk holding
\* two
C28_Witness ==
    /\ op = "chunk_text"
    /\ Len(Sentences) >= 3
    /\ Len(ret.value) >= 2
    /\ \E k \in 1..Len(ret.value) : Len(SentencesIn(ret.value[k])) >= 2
    /\ SentencesOfChunks(ret.value) = Sentences

(***************************************************************************)
(* _clean_text, and the text chunks of a page (lines 23-28), as functions  *)
(* of the raw page text: every text up to a length over a word character,  *)
(* two whitespace characters, a period and a disallowed character.         *)
(***************************************************************************)
MaxRawLen == 5    \* longest raw page text

RawChars == {"a", " ", "\n", ".", "#"}

RawTexts == UNION {[1..n -> RawChars] : n \in 0..MaxRawLen}

InitClean ==
    /\ chunk_input \in RawTexts
    /\ size_input = DefaultChunkSize
    /\ ret = NoCall
    /\ op = "none"
    /\ pdf = NoPdf
    /\ file = AbsentFile
    /\ persisted = None
    /\ knowledge_base = None
    /\ question_embedding = NoCall
    /\ top_k = 1
    /\ query = <<>>
    /\ top_indices = <<>>
    /\ chat_history = <<>>
    /\ app = "app"
    /\ cache = EmptyCache
    /\ ingestion = NoIngestion
    /\ sessions = <<>>
    /\ servers = <<>>

\* a call of _clean_text
CleanText ==
    /\ op = "none"
    /\ ret' = Returned(clean_text(chunk_input))
    /\ op' = "clean_text"
    /\ UNCHANGED <<retrievalVars, storeVars, appVars, sessionVars, inputVars>>

\* lines 23-28 for a page whose extract_text returned the text
ExtractPageText ==
    /\ op = "none"
    /\ ret' = Returned(PageTextChunks(chunk_input))
    /\ op' = "page_text"
    /\ UNCHANGED <<retrievalVars, storeVars, appVars, sessionVars, inputVars>>

NextClean == CleanText \/ ExtractPageText

SpecClean == InitClean /\ [][NextClean]_vars

(***************************************************************************)
(* Claims about _clean_text and the page's text chunks, under SpecClean    *)
(***************************************************************************)
Allowed == WordChars \cup Whitespace \cup KeptPunctuation

\* C24 (as claimed): the output of _clean_text has every run of whitespace
\* collapsed: no two adjacent characters of it are both whitespace, also
\* where a removed character stood between two spaces.
C24_NoAdjacentWhitespace ==
    op = "clean_text"
        => \A i \in 1..(Len(ret.value) - 1) :
              ~(ret.value[i] \in Whitespace /\ ret.value[i + 1] \in Whitespace)

\* C25: the output of _clean_text holds allow-list characters only and
\* neither starts nor ends with whitespace.
C25_AllowListAndTrimmed ==
    op = "clean_text"
        => /\ \A i \in 1..Len(ret.value) : ret.value[i] \in Allowed
           /\ ret.value # <<>>
                 => /\ ret.value[1] \notin Whitespace
                    /\ ret.value[Len(ret.value)] \notin Whitespace

\* a text with whitespace at both ends once its disallowed characters are
\* removed, cleaned to something
C25_Witness ==
    /\ op = "clean_text"
    /\ Len(chunk_input) >= 4
    /\ chunk_input[1] \notin Allowed
    /\ chunk_input[2] \in Whitespace
    /\ chunk_input[Len(chunk_input)] \in Whitespace
    /\ ret.value # <<>>
    /\ Len(ret.value) < Len(chunk_input) - 2

\* C29 (as claimed): a page whose normalized text is empty gives no text
\* chunk.
C29_EmptyTextNoChunk ==
    (op = "page_text" /\ clean_text(chunk_input) = <<>>) => ret.value = <<>>

(***************************************************************************)
(* JSON (json.dump, json.load).  The file content is the sequence of the   *)
(* tokens written: punctuation, null, member names, and string and number  *)
(* tokens carrying the characters written for them (a string escaped, a    *)
(* float as its repr).  White space between tokens is not modelled.        *)
(***************************************************************************)
Tok(t) == [t |-> t, v |-> <<>>]
KeyTok(name) == [t |-> "key", v |-> name]
StrTok(chars) == [t |-> "str", v |-> chars]
NumTok(chars) == [t |-> "num", v |-> chars]

EscapeNothing(text) == text

\* the characters json.dump writes for a string (ensure_ascii=False): the
\* quote, the backslash and the control characters are escaped
RECURSIVE Escape(_)
Escape(text) ==
    IF text = <<>> THEN <<>>
    ELSE LET c == Head(text)
         IN (CASE c = "\"" -> <<"\\", "\"">>
               [] c = "\\" -> <<"\\", "\\">>
               [] c = "\n" -> <<"\\", "n">>
               [] c = "\t" -> <<"\\", "t">>
               [] c = "\r" -> <<"\\", "r">>
               [] c = "\f" -> <<"\\", "f">>
               [] OTHER -> <<c>>) \o Escape(Tail(text))

ParseFail == [ok |-> FALSE, val |-> None, next |-> 0]
ParseOk(val, next) == [ok |-> TRUE, val |-> val, next |-> next]

\* the string json.load reads from the characters of a string token: a raw
\* quote or control character, or a bad escape, is a decode error
RECURSIVE Unescape(_, _)
Unescape(chars, acc) ==
    IF chars = <<>> THEN ParseOk(acc, 0)
    ELSE LET c == Head(chars)
         IN IF c = "\\"
            THEN IF Len(chars) < 2 THEN ParseFail
                 ELSE LET e == chars[2]
                          rest == SubSeq(chars, 3, Len(chars))
                      IN CASE e = "\"" -> Unescape(rest, Append(acc, "\""))
                           [] e = "\\" -> Unescape(rest, Append(acc, "\\"))
                           [] e = "n" -> Unescape(rest, Append(acc, "\n"))
                           [] e = "t" -> Unescape(rest, Append(acc, "\t"))
                           [] e = "r" -> Unescape(rest, Append(acc, "\r"))
                           [] e = "f" -> Unescape(rest, Append(acc, "\f"))
                           [] OTHER -> ParseFail
            ELSE IF c = "\"" \/ c \in {"\n", "\t", "\r", "\f"} THEN ParseFail
            ELSE Unescape(Tail(chars), Append(acc, c))

Digits == <<"0", "1", "2", "3", "4", "5", "6", "7", "8", "9">>

\* repr of a non-negative int
RECURSIVE NatRepr(_)
NatRepr(n) ==
    IF n < 10 THEN <<Digits[n + 1]>>
    ELSE NatRepr(n \div 10) \o <<Digits[(n % 10) + 1]>>

IntRepr(n) == IF n < 0 THEN <<"-">> \o NatRepr(0 - n) ELSE NatRepr(n)

\* repr of a float with an integral value: "1.0"
FloatRepr(n) == IntRepr(n) \o <<".", "0">>

DigitValue(c) == CHOOSE d \in 0..9 : Digits[d + 1] = c

IsDigit(c) == \E d \in 1..10 : Digits[d] = c

RECURSIVE NatValue(_, _)
NatValue(chars, acc) ==
    IF chars = <<>> THEN acc
    ELSE NatValue(Tail(chars), 10 * acc + DigitValue(Head(chars)))

\* the number json.load reads from the characters of a number token: an
\* optional minus, digits, and an optional ".0"
ParseNum(chars) ==
    LET neg == chars # <<>> /\ chars[1] = "-"
        body == IF neg THEN Tail(chars) ELSE chars
        frac == Len(body) >= 2 /\ body[Len(body) - 1] = "." /\ body[Len(body)] = "0"
        digs == IF frac THEN SubSeq(body, 1, Len(body) - 2) ELSE body
    IN IF digs = <<>> \/ \E i \in 1..Len(digs) : ~IsDigit(digs[i])
       THEN ParseFail
       ELSE ParseOk(IF neg THEN 0 - NatValue(digs, 0) ELSE NatValue(digs, 0), 0)

\* tokens of a list whose items' tokens are given, with the commas between
RECURSIVE CommaSeparated(_)
CommaSeparated(items) ==
    IF items = <<>> THEN <<>>
    ELSE IF Len(items) = 1 THEN items[1]
    ELSE items[1] \o <<Tok(",")>> \o CommaSeparated(Tail(items))

DumpList(items) == <<Tok("[")>> \o CommaSeparated(items) \o <<Tok("]")>>

DumpStrings(texts) == DumpList([i \in 1..Len(texts) |-> <<StrTok(Escape(texts[i]))>>])

DumpVector(v) == DumpList([i \in 1..Len(v) |-> <<NumTok(FloatRepr(v[i]))>>])

DumpMatrix(m) == DumpList([i \in 1..Len(m) |-> DumpVector(m[i])])

DumpMetadata(md) ==
    <<Tok("{"), KeyTok("total_chunks"), Tok(":"), NumTok(IntRepr(md.total_chunks)),
      Tok(","), KeyTok("text_chunks"), Tok(":"), NumTok(IntRepr(md.text_chunks)),
      Tok(","), KeyTok("table_chunks"), Tok(":"), NumTok(IntRepr(md.table_chunks)),
      Tok("}")>>

\* lines 116-117: json.dump of the knowledge base dict
json_dump(kb) ==
    <<Tok("{"), KeyTok("chunks"), Tok(":")>> \o DumpStrings(kb.chunks)
    \o <<Tok(","), KeyTok("embeddings"), Tok(":")>> \o DumpMatrix(kb.embeddings)
    \o <<Tok(","), KeyTok("metadata"), Tok(":")>> \o DumpMetadata(kb.metadata)
    \o <<Tok("}")>>

SetItem(d, k, v) == [x \in DOMAIN d \cup {k} |-> IF x = k THEN v ELSE d[x]]

RECURSIVE ParseValue(_, _)
RECURSIVE ParseElems(_, _, _)
RECURSIVE ParseMembers(_, _, _)

\* the JSON value starting at token i
ParseValue(toks, i) ==
    IF i > Len(toks) THEN ParseFail
    ELSE LET tok == toks[i]
         IN CASE tok.t = "str" ->
                    LET u == Unescape(tok.v, <<>>)
                    IN IF u.ok THEN ParseOk(u.val, i + 1) ELSE ParseFail
              [] tok.t = "num" ->
                    LET n == ParseNum(tok.v)
                    IN IF n.ok THEN ParseOk(n.val, i + 1) ELSE ParseFail
              [] tok.t = "null" -> ParseOk(None, i + 1)
              [] tok.t = "[" ->
                    IF i + 1 <= Len(toks) /\ toks[i + 1].t = "]"
                    THEN ParseOk(<<>>, i + 2)
                    ELSE ParseElems(toks, i + 1, <<>>)
              [] tok.t = "{" ->
                    IF i + 1 <= Len(toks) /\ toks[i + 1].t = "}"
                    THEN ParseOk([x \in {} |-> None], i + 2)
                    ELSE ParseMembers(toks, i + 1, [x \in {} |-> None])
              [] OTHER -> ParseFail

\* the items of a list from token i on, acc being the items read
ParseElems(toks, i, acc) ==
    LET item == ParseValue(toks, i)
    IN IF ~item.ok \/ item.next > Len(toks) THEN ParseFail
       ELSE IF toks[item.next].t = ","
       THEN ParseElems(toks, item.next + 1, Append(acc, item.val))
       ELSE IF toks[item.next].t = "]"
       THEN ParseOk(Append(acc, item.val), item.next + 1)
       ELSE ParseFail

\* a parser that takes the end of the input for the end of the object
RECURSIVE ParseMembersLenient(_, _, _)
ParseMembersLenient(toks, i, acc) ==
    IF i + 1 > Len(toks) \/ toks[i].t # "key" \/ toks[i + 1].t # ":" THEN ParseFail
    ELSE LET member == ParseValue(toks, i + 2)
         IN IF ~member.ok THEN ParseFail
            ELSE IF member.next > Len(toks)
            THEN ParseOk(SetItem(acc, toks[i].v, member.val), member.next)
            ELSE IF toks[member.next].t = ","
            THEN ParseMembersLenient(toks, member.next + 1,
                                     SetItem(acc, toks[i].v, member.val))
            ELSE IF toks[member.next].t = "}"
            THEN ParseOk(SetItem(acc, toks[i].v, member.val), member.next + 1)
            ELSE ParseFail

\* the members of an object from token i on, acc being the members read
ParseMembers(toks, i, acc) ==
    IF i + 1 > Len(toks) \/ toks[i].t # "key" \/ toks[i + 1].t # ":" THEN ParseFail
    ELSE LET member == ParseValue(toks, i + 2)
         IN IF ~member.ok \/ member.next > Len(toks) THEN ParseFail
            ELSE IF toks[member.next].t = ","
            THEN ParseMembers(toks, member.next + 1,
                              SetItem(acc, toks[i].v, member.val))
            ELSE IF toks[member.next].t = "}"
            THEN ParseOk(SetItem(acc, toks[i].v, member.val), member.next + 1)
            ELSE ParseFail

\* line 126: json.load of the file content
Loaded(r, toks) ==
    IF r.ok /\ r.next = Len(toks) + 1
    THEN Returned(r.val)
    ELSE Raised("JSONDecodeError")

json_load(toks) == Loaded(ParseValue(toks, 1), toks)

(***************************************************************************)
(* PDFProcessor.create_embeddings, save_knowledge_base, load_knowledge_base*)
(***************************************************************************)
\* The provider's vector for a text: a fixed function of the text (here the
\* parities of the numbers of word characters at the positions of each
\* residue modulo Dim); which function is the provider's business.
encode(text) ==
    [i \in 1..Dim |->
        Cardinality({p \in 1..Len(text) :
                        p % Dim = i - 1 /\ text[p] \in WordChars}) % 2]

\* a provider call that leaves out the last chunk
CreateEmbeddingsButLast(chunks) ==
    [i \in 1..(Len(chunks) - 1) |-> encode(chunks[i])]

\* lines 84-90, for a provider that answers
create_embeddings(chunks) == [i \in 1..Len(chunks) |-> encode(chunks[i])]

\* the dict with the number of text chunks as its total
KnowledgeBaseDictTextTotal(data) ==
    [chunks |-> data.text_chunks \o data.table_chunks,
     embeddings |-> create_embeddings(data.text_chunks \o data.table_chunks),
     metadata |-> [total_chunks |-> Len(data.text_chunks),
                   text_chunks |-> Len(data.text_chunks),
                   table_chunks |-> Len(data.table_chunks)]]

\* the dict with the table chunks before the text chunks
KnowledgeBaseDictTablesFirst(data) ==
    [chunks |-> data.table_chunks \o data.text_chunks,
     embeddings |-> create_embeddings(data.table_chunks \o data.text_chunks),
     metadata |-> [total_chunks |-> Len(data.table_chunks \o data.text_chunks),
                   text_chunks |-> Len(data.text_chunks),
                   table_chunks |-> Len(data.table_chunks)]]

\* lines 106-114
KnowledgeBaseDict(data) ==
    [chunks |-> data.text_chunks \o data.table_chunks,
     embeddings |-> create_embeddings(data.text_chunks \o data.table_chunks),
     metadata |-> [total_chunks |-> Len(data.text_chunks \o data.table_chunks),
                   text_chunks |-> Len(data.text_chunks),
                   table_chunks |-> Len(data.table_chunks)]]

\* lines 116-120: the file written and the dict returned
Persist(kb) == [ret |-> Returned(kb), file |-> PresentFile(json_dump(kb))]

\* a build without the test of line 99
SaveExtractedUnguarded(data, f, provider_ok) ==
    IF ~provider_ok
    THEN [ret |-> Raised(ProviderError), file |-> f]
    ELSE IF f.state = "unreadable"
    THEN [ret |-> Raised("PermissionError"), file |-> f]
    ELSE Persist(KnowledgeBaseDict(data))

\* save_knowledge_base(pdf_path, output_path): the outcome and the file
\* afterwards.  provider_ok: whether model.encode answers.  A file that is
\* not accessible cannot be opened for writing either.
SaveExtracted(data, f, provider_ok) ==
    IF data.text_chunks \o data.table_chunks = <<>>
    THEN [ret |-> Returned(None), file |-> f]
    ELSE IF ~provider_ok
    THEN [ret |-> Raised(ProviderError), file |-> f]
    ELSE IF f.state = "unreadable"
    THEN [ret |-> Raised("PermissionError"), file |-> f]
    ELSE Persist(KnowledgeBaseDict(data))

save_knowledge_base(doc, f, provider_ok) ==
    SaveExtracted(extract_text_and_tables(doc), f, provider_ok)

\* load_knowledge_base(path): only FileNotFoundError is caught
load_knowledge_base(f) ==
    IF f.state = "absent" THEN Returned(None)
    ELSE IF f.state = "unreadable" THEN Raised("PermissionError")
    ELSE json_load(f.content)

(***************************************************************************)
(* The store as functions of the document and the file: any sequence of    *)
(* save_knowledge_base and load_knowledge_base calls, from a file that is  *)
(* absent, not accessible, well formed, cut short, or not a knowledge base *)
(***************************************************************************)
SampleKnowledgeBase ==
    [chunks |-> << <<"x", ".">> >>, embeddings |-> << <<1, 0>> >>,
     metadata |-> Metadata(1, 0)]

InitialFiles ==
    {AbsentFile,
     UnreadableFile,
     PresentFile(<<>>),
     PresentFile(json_dump(SampleKnowledgeBase)),
     PresentFile(SubSeq(json_dump(SampleKnowledgeBase), 1, 9)),
     PresentFile(<<Tok("{"), KeyTok("chunks"), Tok(":"), Tok("["),
                   StrTok(<<"x", "\n">>), Tok("]"), Tok("}")>>),
     PresentFile(<<Tok("null")>>),
     PresentFile(<<Tok("{"), Tok("}")>>)}

InitStore ==
    /\ pdf \in Documents
    /\ file \in InitialFiles
    /\ persisted = None
    /\ knowledge_base = None
    /\ question_embedding = NoCall
    /\ top_k = 1
    /\ query = <<>>
    /\ top_indices = <<>>
    /\ ret = NoCall
    /\ op = "none"
    /\ chat_history = <<>>
    /\ app = "app"
    /\ cache = EmptyCache
    /\ ingestion = NoIngestion
    /\ sessions = <<>>
    /\ servers = <<>>
    /\ chunk_input = <<>>
    /\ size_input = DefaultChunkSize

\* a call of save_knowledge_base on the document, writing the file
SaveKnowledgeBase ==
    \E provider_ok \in BOOLEAN :
        \E o \in {save_knowledge_base(pdf, file, provider_ok)} :
           /\ ret' = o.ret
           /\ file' = o.file
           /\ persisted' = IF o.ret.raised = "none" /\ o.ret.value # None
                           THEN o.ret.value ELSE persisted
           /\ op' = "save_knowledge_base"
           /\ UNCHANGED <<pdf, retrievalVars, appVars, sessionVars, inputVars>>

\* a call of load_knowledge_base on the file
LoadKnowledgeBase ==
    /\ ret' = load_knowledge_base(file)
    /\ op' = "load_knowledge_base"
    /\ UNCHANGED <<retrievalVars, storeVars, appVars, sessionVars, inputVars>>

NextStore == SaveKnowledgeBase \/ LoadKnowledgeBase

SpecStore == InitStore /\ [][NextStore]_vars

(***************************************************************************)
(* Claims about the store, checked under SpecStore                         *)
(***************************************************************************)
Unparseable(f) == f.state = "present" /\ json_load(f.content).raised # "none"

\* C8 (as claimed): load returns None and raises nothing when the path does
\* not exist, when the file is unreadable, and when its content fails to
\* parse.
C8_LoadFailureGivesAbsent ==
    (/\ op = "load_knowledge_base"
     /\ file.state \in {"absent", "unreadable"} \/ Unparseable(file))
        => ret = Returned(None)

\* C9: once save_knowledge_base has written the file, load_knowledge_base
\* returns a knowledge base whose chunks, embeddings and metadata counts
\* equal, element by element and in order, those of the value the build
\* returned.
C9_RoundTrip ==
    (op = "load_knowledge_base" /\ persisted # None)
        => /\ ret.raised = "none"
           /\ DOMAIN ret.value = {"chunks", "embeddings", "metadata"}
           /\ Len(ret.value.chunks) = Len(persisted.chunks)
           /\ \A i \in 1..Len(persisted.chunks) :
                 ret.value.chunks[i] = persisted.chunks[i]
           /\ Len(ret.value.embeddings) = Len(persisted.embeddings)
           /\ \A i \in 1..Len(persisted.embeddings) :
                 ret.value.embeddings[i] = persisted.embeddings[i]
           /\ ret.value.metadata.total_chunks = persisted.metadata.total_chunks
           /\ ret.value.metadata.text_chunks = persisted.metadata.text_chunks
           /\ ret.value.metadata.table_chunks = persisted.metadata.table_chunks

\* a knowledge base with text and table chunks, one holding a quote and one
\* a line break, written by a build and read back
C9_Witness ==
    /\ op = "load_knowledge_base"
    /\ persisted # None
    /\ persisted.metadata.text_chunks >= 1
    /\ persisted.metadata.table_chunks >= 2
    /\ \E i \in 1..Len(persisted.chunks) : InSeq("\"", persisted.chunks[i])
    /\ \E i \in 1..Len(persisted.chunks) : InSeq("\n", persisted.chunks[i])
    /\ ret = Returned(persisted)

\* save_knowledge_base has just returned a knowledge base
Built == op = "save_knowledge_base" /\ ret.raised = "none" /\ ret.value # None

\* what the file holds, as json.load reads it
OnFile == json_load(file.content).value

\* C17: every knowledge base a build produces has as many embeddings as
\* chunks, that number as metadata.total_chunks, and embeddings[i] is the
\* provider's vector for chunks[i].
C17_EmbeddingsMatchChunks ==
    Built
        => /\ Len(ret.value.chunks) = Len(ret.value.embeddings)
           /\ Len(ret.value.chunks) = ret.value.metadata.total_chunks
           /\ \A i \in 1..Len(ret.value.chunks) :
                 ret.value.embeddings[i] = encode(ret.value.chunks[i])

\* a build has returned three chunks or more whose vectors are not all equal
C17_Witness ==
    /\ Built
    /\ Len(ret.value.chunks) >= 3
    /\ \E i, j \in 1..Len(ret.value.chunks) :
          ret.value.embeddings[i] # ret.value.embeddings[j]

\* C18: in the knowledge base a build has written to the file,
\* metadata.text_chunks and metadata.table_chunks are the numbers of text
\* and table chunks of the pass, and their sum is metadata.total_chunks.
C18_MetadataCountsAddUp ==
    Built
        => /\ json_load(file.content).raised = "none"
           /\ OnFile.metadata.text_chunks =
                 Len(extract_text_and_tables(pdf).text_chunks)
           /\ OnFile.metadata.table_chunks =
                 Len(extract_text_and_tables(pdf).table_chunks)
           /\ OnFile.metadata.text_chunks + OnFile.metadata.table_chunks
                 = OnFile.metadata.total_chunks
           /\ OnFile.metadata.total_chunks = Len(OnFile.chunks)

\* a build has written a file with text chunks and table chunks
C18_Witness ==
    /\ Built
    /\ OnFile.metadata.text_chunks >= 2
    /\ OnFile.metadata.table_chunks >= 1

\* the text chunks of the pages in page order, and the table chunks
RECURSIVE TextOfPages(_)
TextOfPages(pages) ==
    IF pages = <<>> THEN <<>>
    ELSE PageTextChunks(Head(pages).text.value) \o TextOfPages(Tail(pages))

RECURSIVE TablesOfPages(_)
TablesOfPages(pages) ==
    IF pages = <<>> THEN <<>>
    ELSE TableChunks(Head(pages).tables.value) \o TablesOfPages(Tail(pages))

AllPagesExtract(doc) ==
    doc.opens /\ \A p \in 1..Len(doc.pages) : ~PageFails(doc.pages[p])

\* C19: for a document whose pages all extract, the chunks of the knowledge
\* base are the text chunks of the pages in page order followed by the table
\* chunks of the pages in page order; the chunks written to the file are in
\* that order, and vector i is the vector of chunk i.
C19_TextThenTables ==
    (Built /\ AllPagesExtract(pdf))
        => /\ ret.value.chunks = TextOfPages(pdf.pages) \o TablesOfPages(pdf.pages)
           /\ OnFile.chunks = TextOfPages(pdf.pages) \o TablesOfPages(pdf.pages)
           /\ \A i \in 1..Len(OnFile.chunks) :
                 OnFile.embeddings[i] = encode(OnFile.chunks[i])

\* a build from two pages that both have text and tables
C19_Witness ==
    /\ Built /\ AllPagesExtract(pdf)
    /\ Len(pdf.pages) = 2
    /\ \A p \in 1..2 : /\ PageTextChunks(pdf.pages[p].text.value) # <<>>
                        /\ TableChunks(pdf.pages[p].tables.value) # <<>>
    /\ pdf.pages[1].text # pdf.pages[2].text

(***************************************************************************)
(* The application: app.py and app_deployment.py                           *)
(***************************************************************************)
\* "Error retrieving context from knowledge base."
ErrorRetrievingContext ==
    <<"E","r","r","o","r"," ","r","e","t","r","i","e","v","i","n","g"," ","c",
      "o","n","t","e","x","t"," ","f","r","o","m"," ","k","n","o","w","l","e",
      "d","g","e"," ","b","a","s","e",".">>

\* "Knowledge base not available."
KnowledgeBaseNotAvailable ==
    <<"K","n","o","w","l","e","d","g","e"," ","b","a","s","e"," ","n","o","t",
      " ","a","v","a","i","l","a","b","l","e",".">>

\* the length at which context_used is cut
ContextUsedLength == 100

\* relevant_context[:100] + "..." if len(relevant_context) > 100 else relevant_context
ContextUsed(ctx) ==
    IF Len(ctx) > ContextUsedLength
    THEN SubSeq(ctx, 1, ContextUsedLength) \o <<".", ".", ".">>
    ELSE ctx

UserMessage == [role |-> "user", context_used |-> <<>>]
AssistantMessage(ctx) == [role |-> "assistant", context_used |-> ContextUsed(ctx)]

\* load_or_create_knowledge_base of app.py (lines 118-140) and, with its
\* try/except, of app_deployment.py (lines 161-189): the outcome and the
\* file afterwards
\* an exception e of load or save: it leaves app.py's function, and is
\* caught in app_deployment.py's, which returns None
Failed(variant, e, f, pass) ==
    [ret |-> IF variant = "app" THEN e ELSE Returned(None), file |-> f,
     pass |-> pass]

\* how a call of save_knowledge_base ended: it raised, it found no chunks
\* and returned None, or it wrote the file and returned the dict
PassOutcome(saved) ==
    IF saved.ret.raised # "none" THEN "failed"
    ELSE IF saved.ret.value = None THEN "empty"
    ELSE "built"

\* the function returning whatever the load of an existing file gives
LoadOrCreateNoRebuild(variant, doc, f, loaded, saved) ==
    IF ~doc.exists THEN [ret |-> Returned(None), file |-> f, pass |-> "none"]
    ELSE IF f.state # "absent" /\ loaded.raised # "none"
    THEN Failed(variant, loaded, f, "none")
    ELSE IF f.state # "absent"
    THEN [ret |-> loaded, file |-> f, pass |-> "none"]
    ELSE IF saved.ret.raised # "none" THEN Failed(variant, saved.ret, f, "failed")
    ELSE [ret |-> saved.ret, file |-> saved.file, pass |-> PassOutcome(saved)]

\* the function, given the outcomes of load_knowledge_base and
\* save_knowledge_base should it call them
LoadOrCreateWith(variant, doc, f, loaded, saved) ==
    IF ~doc.exists THEN [ret |-> Returned(None), file |-> f, pass |-> "none"]
    ELSE IF f.state # "absent" /\ loaded.raised # "none"
    THEN Failed(variant, loaded, f, "none")
    ELSE IF f.state # "absent" /\ Truthy(loaded.value)
    THEN [ret |-> loaded, file |-> f, pass |-> "none"]
    ELSE IF saved.ret.raised # "none" THEN Failed(variant, saved.ret, f, "failed")
    ELSE [ret |-> saved.ret, file |-> saved.file, pass |-> PassOutcome(saved)]

load_or_create_knowledge_base(variant, doc, f, provider_ok) ==
    LoadOrCreateWith(variant, doc, f, load_knowledge_base(f),
                     save_knowledge_base(doc, f, provider_ok))

\* @st.cache_data: a value returned is kept and returned again without running
\* the function; an exception is not kept
CacheResult(r, c) ==
    [ret |-> r.ret, file |-> r.file, pass |-> r.pass,
     cache |-> IF r.ret.raised = "none" THEN Cached(r.ret.value) ELSE c]

CachedLoadOrCreate(variant, doc, f, c, provider_ok) ==
    IF c.filled
    THEN [ret |-> Returned(c.value), file |-> f, pass |-> "none", cache |-> c]
    ELSE CacheResult(load_or_create_knowledge_base(variant, doc, f, provider_ok), c)

\* main, up to the knowledge base (app.py lines 444-446, app_deployment.py
\* lines 519-520): the outcome, and the session's knowledge base, the file
\* and the cache afterwards
Assigned(r, kb) ==
    [ret |-> r.ret, kb |-> IF r.ret.raised = "none" THEN r.ret.value ELSE kb,
     file |-> r.file, cache |-> r.cache, pass |-> r.pass]

LoadStep(provider_ok) ==
    IF Truthy(knowledge_base)
    THEN [ret |-> Returned(knowledge_base), kb |-> knowledge_base,
          file |-> file, cache |-> cache, pass |-> "none"]
    ELSE Assigned(CachedLoadOrCreate(app, pdf, file, cache, provider_ok),
                  knowledge_base)

\* the retrieval step of handle_user_input (app.py lines 189-196,
\* app_deployment.py lines 264-274): in app_deployment.py an exception of
\* find_relevant_chunk is caught and replaced by a context text
Retrieval(variant, kb, enc) ==
    IF Truthy(kb)
    THEN {IF variant = "app" \/ o.ret.raised = "none" THEN o
          ELSE [o EXCEPT !.ret = Returned(ErrorRetrievingContext)] :
             o \in find_relevant_chunk(kb, enc, 1)}
    ELSE {[ret |-> Returned(IF variant = "app" THEN NoKnowledgeBase
                            ELSE KnowledgeBaseNotAvailable),
           qv |-> NoCall, top |-> <<>>]}

\* the record of builds after a run whose knowledge base step ended with pass
Recorded(pass) ==
    IF pass = "none" THEN [ingestion EXCEPT !.started = FALSE]
    ELSE [started |-> TRUE, outcome |-> pass]

\* a script run stopped by an exception of the knowledge base step
RunAborted(step) ==
    /\ ret' = step.ret
    /\ op' = "main"
    /\ file' = step.file
    /\ cache' = step.cache
    /\ ingestion' = Recorded(step.pass)
    /\ UNCHANGED <<knowledge_base, question_embedding, top_k, top_indices,
                   pdf, persisted, chat_history, app, sessionVars, inputVars>>

\* what a run that passes the knowledge base step does to the session's
\* knowledge base, the file and the cache
RunLoaded(step) ==
    /\ knowledge_base' = step.kb
    /\ file' = step.file
    /\ cache' = step.cache
    /\ persisted' = IF step.file # file THEN step.kb ELSE persisted
    /\ ingestion' = Recorded(step.pass)
    /\ UNCHANGED <<pdf, app, sessionVars, inputVars>>

\* a script run with no button pressed
Main ==
    \E provider_ok \in BOOLEAN :
        \E step \in {LoadStep(provider_ok)} :
           IF step.ret.raised # "none" THEN RunAborted(step)
           ELSE /\ RunLoaded(step)
                /\ ret' = Returned(None)
                /\ op' = "main"
                /\ UNCHANGED <<question_embedding, top_k, top_indices, chat_history>>

\* a script run with "Send" pressed: main, then handle_user_input
Submit ==
    /\ Len(chat_history) + 2 <= MaxHistory
    /\ \E provider_ok \in BOOLEAN, enc \in EncodeOutcomes :
        \E step \in {LoadStep(provider_ok)} :
           IF step.ret.raised # "none" THEN RunAborted(step)
           ELSE \E o \in Retrieval(app, step.kb, enc) :
                /\ RunLoaded(step)
                /\ ret' = o.ret
                /\ op' = "handle_user_input"
                /\ question_embedding' = o.qv
                /\ top_indices' = o.top
                /\ top_k' = 1
                /\ chat_history' =
                      IF o.ret.raised = "none"
                      THEN chat_history \o <<UserMessage, AssistantMessage(o.ret.value)>>
                      ELSE Append(chat_history, UserMessage)

\* a script run with "Clear Chat" pressed
Clear ==
    \E provider_ok \in BOOLEAN :
        \E step \in {LoadStep(provider_ok)} :
           IF step.ret.raised # "none" THEN RunAborted(step)
           ELSE /\ RunLoaded(step)
                /\ ret' = Returned(None)
                /\ op' = "clear"
                /\ chat_history' = <<>>
                /\ UNCHANGED <<question_embedding, top_k, top_indices>>

(***************************************************************************)
(* The quiz (QuizGenerator, app.py initialize_quiz).  QuizGenerator keeps  *)
(* the list it is given (self.chunks = chunks): the list of the knowledge  *)
(* base and the generator's are one object, so the operators below return  *)
(* the list as the generator leaves it together with their result.         *)
(***************************************************************************)
MinSentenceLength == 20
SentenceLimit == 50
NumQuestions == 15
MinWords == 5
ChoiceExcerpt == 50
OpenExcerpt == 30

\* the sentences of one chunk that are kept (lines 156-160)
RECURSIVE KeptSentences(_)
KeptSentences(pieces) ==
    IF pieces = <<>> THEN <<>>
    ELSE (IF Len(Strip(Head(pieces))) > MinSentenceLength
          THEN <<Strip(Head(pieces))>> ELSE <<>>) \o KeptSentences(Tail(pieces))

\* lines 154-160: the loop over self.chunks
RECURSIVE SentenceLoop(_)
SentenceLoop(chunks) ==
    IF chunks = <<>> THEN <<>>
    ELSE KeptSentences(Split(Head(chunks), DotSpace)) \o SentenceLoop(Tail(chunks))

\* a loop that takes the chunks out of the list as it reads them
ExtractSentencesConsuming(chunks) ==
    [chunks |-> <<>>,
     sentences |-> SubSeq(SentenceLoop(chunks), 1,
                          Min(SentenceLimit, Len(SentenceLoop(chunks))))]

\* QuizGenerator._extract_sentences: the list read, and sentences[:50]
ExtractSentences(chunks) ==
    [chunks |-> chunks,
     sentences |-> SubSeq(SentenceLoop(chunks), 1,
                          Min(SentenceLimit, Len(SentenceLoop(chunks))))]

\* len(sentence.split())
Words(t) ==
    Cardinality({i \in 1..Len(t) :
                    t[i] \notin Whitespace /\ (i = 1 \/ t[i - 1] \in Whitespace)})

Excerpt(t, n) == SubSeq(t, 1, Min(n, Len(t)))

\* the three question makers; the question is the template's words and the
\* text put into it
generate_true_false(sentence) ==
    [type |-> "true_false", question |-> <<"True or False: ", sentence>>,
     answer |-> <<"True">>]

generate_multiple_choice(sentence) ==
    IF Words(sentence) < MinWords THEN None
    ELSE [type |-> "multiple_choice",
          question |-> <<"According to the material: ",
                         Excerpt(sentence, ChoiceExcerpt), "...">>,
          answer |-> <<"Option A">>]

generate_open_ended(sentence) ==
    [type |-> "open_ended",
     question |-> <<"Explain the following concept mentioned in the material: ",
                    Excerpt(sentence, OpenExcerpt), "...">>,
     answer |-> sentence]

\* lines 168-183: the loop over self.sentences[:num_questions], i counting
\* from 0
RECURSIVE QuestionLoop(_, _, _)
QuestionLoop(sentences, i, questions) ==
    IF sentences = <<>> THEN questions
    ELSE LET question == CASE i % 3 = 0 -> generate_true_false(Head(sentences))
                           [] i % 3 = 1 -> generate_multiple_choice(Head(sentences))
                           [] OTHER -> generate_open_ended(Head(sentences))
         IN QuestionLoop(Tail(sentences), i + 1,
                         IF question # None THEN Append(questions, question)
                         ELSE questions)

\* QuizGenerator.generate_questions
generate_questions(sentences, num_questions) ==
    QuestionLoop(Excerpt(sentences, num_questions), 0, <<>>)

\* initialize_quiz (app.py lines 298-319) on the session's knowledge base:
\* the questions (None when it returns early) and the knowledge base after
QuizOf(generator, kb) ==
    [questions |-> generate_questions(generator.sentences, NumQuestions),
     kb |-> [kb EXCEPT !.chunks = generator.chunks]]

initialize_quiz(kb) ==
    IF ~Truthy(kb) \/ "chunks" \notin DOMAIN kb THEN [questions |-> None, kb |-> kb]
    ELSE IF kb.chunks = <<>> THEN [questions |-> None, kb |-> kb]
    ELSE QuizOf(ExtractSentences(kb.chunks), kb)

\* a script run of app.py with "Start Quiz" pressed: main, then
\* initialize_quiz
StartQuiz ==
    /\ app = "app"
    /\ \E provider_ok \in BOOLEAN :
        \E step \in {LoadStep(provider_ok)} :
           IF step.ret.raised # "none" THEN RunAborted(step)
           ELSE \E quiz \in {initialize_quiz(step.kb)} :
                /\ RunLoaded([step EXCEPT !.kb = quiz.kb])
                /\ ret' = Returned(quiz.questions)
                /\ op' = "initialize_quiz"
                /\ UNCHANGED <<question_embedding, top_k, top_indices, chat_history>>

\* a knowledge base with sentences long enough for the quiz
QuizKnowledgeBase ==
    [chunks |-> << <<"t","h","e"," ","d","o","s","e"," ","i","s"," ","5"," ",
                     "m","l"," ","p","e","r"," ","k","g",".">>,
                   <<"g","i","v","e"," ","f","l","u","i","d","s"," ","s","l",
                     "o","w"," ","o","v","e","r"," ","2","4","h",".">>,
                   <<"o","k",".">> >>,
     embeddings |-> << <<1, 0>>, <<0, 1>>, <<1, 1>> >>,
     metadata |-> Metadata(3, 0)]

\* knowledge base files as other builds leave them: the stored vectors of
\* another dimension than the provider's, no "embeddings" member, more
\* vectors than chunks
OtherDimensionKnowledgeBase ==
    [chunks |-> << <<"x", ".">> >>, embeddings |-> << <<1>> >>,
     metadata |-> Metadata(1, 0)]

UnequalKnowledgeBase ==
    [chunks |-> << <<"x", ".">> >>, embeddings |-> << <<0, 1>>, <<1, 0>> >>,
     metadata |-> Metadata(1, 0)]

AppFiles ==
    InitialFiles \cup
    {PresentFile(json_dump(OtherDimensionKnowledgeBase)),
     PresentFile(json_dump(UnequalKnowledgeBase)),
     PresentFile(json_dump(QuizKnowledgeBase))}

AppDocuments == {d \in Documents : Len(d.pages) <= 1}

InitApp ==
    /\ app \in {"app", "app_deployment"}
    /\ pdf \in AppDocuments
    /\ file \in AppFiles
    /\ persisted = None
    /\ knowledge_base = None
    /\ chat_history = <<>>
    /\ cache = EmptyCache
    /\ question_embedding = NoCall
    /\ top_k = 1
    /\ query = <<>>
    /\ top_indices = <<>>
    /\ ret = NoCall
    /\ op = "none"
    /\ ingestion = NoIngestion
    /\ sessions = <<>>
    /\ servers = <<>>
    /\ chunk_input = <<>>
    /\ size_input = DefaultChunkSize

NextApp == Main \/ Submit \/ Clear \/ StartQuiz

SpecApp == InitApp /\ [][NextApp]_vars

(***************************************************************************)
(* Claims about the application, checked under SpecApp                     *)
(***************************************************************************)
\* C7 (as claimed): no exception escapes from query-time retrieval: whatever
\* knowledge base the session got from load or build, the retrieval step of
\* handle_user_input ends with a context string (stated for the submissions
\* in which the embedding provider does not fail).
C7_RetrievalNeverRaises ==
    (op = "handle_user_input" /\ question_embedding.raised # ProviderError)
        => ret.raised = "none"

\* the document gives no chunk: it does not open, or no page has text that
\* survives cleaning or a table with a non-empty row
NoChunks(doc) ==
    extract_text_and_tables(doc).text_chunks = <<>>
        /\ extract_text_and_tables(doc).table_chunks = <<>>

\* C13: when the document gives no chunks, the build a script run starts
\* reports failure (save_knowledge_base returns None, recorded as "empty"),
\* the file at the knowledge base path is as before (not created, not
\* changed) and the session has no knowledge base after the run.
C13_EmptyCorpusLeavesAbsent ==
    [][(ingestion'.started /\ NoChunks(pdf))
          => /\ ingestion'.outcome = "empty"
             /\ file' = file
             /\ knowledge_base' = None
             /\ cache' = Cached(None)]_vars

\* a run has started a build from a document without chunks, over a file
\* that held an empty object
C13_Witness ==
    /\ ingestion.started /\ ingestion.outcome = "empty"
    /\ NoChunks(pdf) /\ pdf.opens
    /\ file = PresentFile(<<Tok("{"), Tok("}")>>)
    /\ knowledge_base = None

\* C14 (as claimed): after a build that failed (it raised, or found no
\* chunks) the session has no knowledge base and no later script run, with
\* or without a question, starts a build.
C14_NoAutomaticRetry ==
    [][ingestion.outcome \in {"failed", "empty"}
          => (knowledge_base = None /\ ~ingestion'.started)]_vars

\* the script run calls the body of load_or_create_knowledge_base: the
\* session has no knowledge base and st.cache_data has no value
Orchestrates == ~Truthy(knowledge_base) /\ ~cache.filled /\ pdf.exists

LoadsEmpty(f) ==
    /\ f.state # "absent"
    /\ load_knowledge_base(f).raised = "none"
    /\ ~Truthy(load_knowledge_base(f).value)

LoadsKnowledgeBase(f) ==
    /\ f.state # "absent"
    /\ load_knowledge_base(f).raised = "none"
    /\ Truthy(load_knowledge_base(f).value)

C16_KnowledgeBaseReadOnly ==
    [][Truthy(knowledge_base) => knowledge_base' = knowledge_base]_vars

\* questions have been asked and a quiz with questions generated from the
\* session's knowledge base
C16_Witness ==
    /\ op = "initialize_quiz"
    /\ ret.raised = "none" /\ ret.value # None /\ Len(ret.value) >= 2
    /\ chat_history # <<>>
    /\ Truthy(knowledge_base)

\* C30 (as claimed): after any sequence of submissions and clears the chat
\* history alternates user and assistant messages, starting with a user
\* message and ending with an assistant message, also when retrieval failed
\* during a submission.
C30_HistoryAlternates ==
    /\ Len(chat_history) % 2 = 0
    /\ \A i \in 1..Len(chat_history) :
          chat_history[i].role = IF i % 2 = 1 THEN "user" ELSE "assistant"

(***************************************************************************)
(* Concurrent sessions.  Each session is a thread of a Streamlit server    *)
(* process running main for the first time (its session_state holds no     *)
(* knowledge base); the server processes run app.py or app_deployment.py   *)
(* in the same directory, so that "embedded_knowledge.json" is one file.   *)
(* st.cache_data keeps one entry per process and lets one thread of the    *)
(* process at a time run the function.  The steps of                       *)
(* load_or_create_knowledge_base and of save_knowledge_base that read or   *)
(* write the file are separate steps: the existence test, the load, the    *)
(* open for writing (which truncates), each write, the return.             *)
(***************************************************************************)
MaxSessions == 2   \* the number of concurrent sessions

Sessions == 1..MaxSessions

Servers == {1, 2}

\* a session before its first script run
NewSession(server) ==
    [server |-> server, pc |-> "start", tokens |-> <<>>, offset |-> 0,
     kb |-> None, ret |-> NoCall]

NewServer(variant) == [variant |-> variant, cache |-> EmptyCache, lock |-> 0]

\* a byte range never written, left by a write past the end of the file
Hole == Tok("hole")

\* f.write of one token at the writer's offset in the file
WriteAt(content, offset, tok) ==
    [i \in 1..Max(Len(content), offset + 1) |->
        IF i = offset + 1 THEN tok
        ELSE IF i <= Len(content) THEN content[i]
        ELSE Hole]

\* the session is inside save_knowledge_base
Building(s) == sessions[s].pc \in {"save", "open", "write"}

\* the function returns v to session s: st.cache_data keeps v and releases
\* the lock, main assigns v to st.session_state.knowledge_base
Return(s, v) ==
    /\ sessions' = [sessions EXCEPT ![s].pc = "done", ![s].kb = v,
                                    ![s].ret = Returned(v)]
    /\ servers' = [servers EXCEPT ![sessions[s].server].cache = Cached(v),
                                  ![sessions[s].server].lock = 0]

\* an exception e in the function: in app.py it leaves the function and the
\* script run (nothing is cached, the lock is released), in
\* app_deployment.py it is caught and None is returned
Fail(s, e) ==
    IF servers[sessions[s].server].variant = "app"
    THEN /\ sessions' = [sessions EXCEPT ![s].pc = "aborted", ![s].ret = e]
         /\ servers' = [servers EXCEPT ![sessions[s].server].lock = 0]
    ELSE Return(s, None)

\* main calls the cached function: a cached value is returned at once,
\* otherwise the thread takes the lock of the entry when it is free
Enter(s) ==
    /\ sessions[s].pc = "start"
    /\ IF servers[sessions[s].server].cache.filled
       THEN /\ sessions' = [sessions EXCEPT
                   ![s].pc = "done",
                   ![s].kb = servers[sessions[s].server].cache.value,
                   ![s].ret = Returned(servers[sessions[s].server].cache.value)]
            /\ UNCHANGED servers
       ELSE /\ servers[sessions[s].server].lock = 0
            /\ sessions' = [sessions EXCEPT ![s].pc = "exists"]
            /\ servers' = [servers EXCEPT ![sessions[s].server].lock = s]
    /\ UNCHANGED <<retrievalVars, storeVars, appVars, inputVars, ret, op>>

\* the tests os.path.exists(pdf_path) and os.path.exists(knowledge_path)
Exists(s) ==
    /\ sessions[s].pc = "exists"
    /\ IF ~pdf.exists THEN Return(s, None)
       ELSE /\ sessions' = [sessions EXCEPT
                   ![s].pc = IF file.state # "absent" THEN "load" ELSE "save"]
            /\ UNCHANGED servers
    /\ UNCHANGED <<retrievalVars, storeVars, appVars, inputVars, ret, op>>

\* processor.load_knowledge_base(knowledge_path) and `if knowledge_base:`
Load(s) ==
    /\ sessions[s].pc = "load"
    /\ \E r \in {load_knowledge_base(file)} :
          IF r.raised # "none" THEN Fail(s, r)
          ELSE IF Truthy(r.value) THEN Return(s, r.value)
          ELSE /\ sessions' = [sessions EXCEPT ![s].pc = "save"]
               /\ UNCHANGED servers
    /\ UNCHANGED <<retrievalVars, storeVars, appVars, inputVars, ret, op>>

\* save_knowledge_base up to the dict (pdf_processor.py lines 94-114)
Save(s) ==
    /\ sessions[s].pc = "save"
    /\ \E provider_ok \in BOOLEAN :
       \E data \in {extract_text_and_tables(pdf)} :
          IF data.text_chunks \o data.table_chunks = <<>> THEN Return(s, None)
          ELSE IF ~provider_ok THEN Fail(s, Raised(ProviderError))
          ELSE /\ sessions' = [sessions EXCEPT
                      ![s].pc = "open",
                      ![s].kb = KnowledgeBaseDict(data),
                      ![s].tokens = json_dump(KnowledgeBaseDict(data))]
               /\ UNCHANGED servers
    /\ UNCHANGED <<retrievalVars, storeVars, appVars, inputVars, ret, op>>

\* open(output_path, 'w'): the file is created or emptied
Open(s) ==
    /\ sessions[s].pc = "open"
    /\ IF file.state = "unreadable"
       THEN Fail(s, Raised("PermissionError")) /\ UNCHANGED file
       ELSE /\ file' = PresentFile(<<>>)
            /\ sessions' = [sessions EXCEPT ![s].pc = "write", ![s].offset = 0]
            /\ UNCHANGED servers
    /\ UNCHANGED <<retrievalVars, pdf, persisted, appVars, inputVars, ret, op>>

\* json.dump: the next token reaches the file
Write(s) ==
    /\ sessions[s].pc = "write"
    /\ sessions[s].offset < Len(sessions[s].tokens)
    /\ file' = PresentFile(WriteAt(file.content, sessions[s].offset,
                                   sessions[s].tokens[sessions[s].offset + 1]))
    /\ sessions' = [sessions EXCEPT ![s].offset = @ + 1]
    /\ UNCHANGED <<retrievalVars, pdf, persisted, appVars, inputVars, ret, op,
                   servers>>

\* the file is closed and the dict returned (lines 119-120, app.py line 140)
Close(s) ==
    /\ sessions[s].pc = "write"
    /\ sessions[s].offset = Len(sessions[s].tokens)
    /\ Return(s, sessions[s].kb)
    /\ UNCHANGED <<retrievalVars, storeVars, appVars, inputVars, ret, op>>

\* a document with one text chunk, one that gives no chunk, none
SessionDocuments ==
    {NoPdf, Pdf(<<>>), Pdf(<<Page(Returned(<<"a", ".", " ", "b">>), Returned(<<>>))>>)}

SessionFiles ==
    {AbsentFile, UnreadableFile, PresentFile(<<Tok("{"), Tok("}")>>),
     PresentFile(json_dump(SampleKnowledgeBase))}

InitSessions ==
    /\ pdf \in SessionDocuments
    /\ file \in SessionFiles
    /\ servers \in [Servers -> {NewServer(v) : v \in {"app", "app_deployment"}}]
    /\ sessions \in [Sessions -> {NewSession(p) : p \in Servers}]
    /\ persisted = None
    /\ knowledge_base = None
    /\ question_embedding = NoCall
    /\ top_k = 1
    /\ query = <<>>
    /\ top_indices = <<>>
    /\ ret = NoCall
    /\ op = "none"
    /\ chat_history = <<>>
    /\ app = "app"
    /\ cache = EmptyCache
    /\ ingestion = NoIngestion
    /\ chunk_input = <<>>
    /\ size_input = DefaultChunkSize

NextSessions ==
    \E s \in Sessions :
        \/ Enter(s)
        \/ Exists(s)
        \/ Load(s)
        \/ Save(s)
        \/ Open(s)
        \/ Write(s)
        \/ Close(s)

SpecSessions == InitSessions /\ [][NextSessions]_vars

(***************************************************************************)
(* Claims about concurrent sessions, checked under SpecSessions            *)
(***************************************************************************)
\* C11 (as claimed): at most one build runs at a time against the knowledge
\* base path, so that two builds never write the file concurrently: no two
\* sessions are inside save_knowledge_base together with the file open for
\* writing.
C11_OneBuildAtATime ==
    \A s, t \in Sessions :
        (/\ Building(s) /\ sessions[s].pc = "write"
         /\ Building(t) /\ sessions[t].pc = "write") => s = t

\* the knowledge bases of complete passes: the one on file at the start and
\* the one a build from the document gives
Complete(kb) ==
    /\ DOMAIN kb = {"chunks", "embeddings", "metadata"}
    /\ Len(kb.chunks) = Len(kb.embeddings)
    /\ Len(kb.chunks) = kb.metadata.total_chunks

Passes == {SampleKnowledgeBase, KnowledgeBaseDict(extract_text_and_tables(pdf))}

\* the session has a knowledge base from its first run
Obtained(s) == sessions[s].pc = "done" /\ Truthy(sessions[s].kb)

\* C12: a reader never gets a partially updated knowledge base: whatever the
\* interleaving of builds, loads of the file and returns, a knowledge base a
\* session has obtained (from the cache, from the file, or from its own
\* build) has all three members, chunks and embeddings of one length, and is
\* the knowledge base of one pass.
C12_NoPartialKnowledgeBase ==
    \A s \in Sessions :
        Obtained(s) => (Complete(sessions[s].kb) /\ sessions[s].kb \in Passes)

\* a session has loaded the file that the build of a session of the other
\* server process wrote
C12_Witness ==
    \E s, t \in Sessions :
        /\ sessions[s].server # sessions[t].server
        /\ Obtained(s) /\ sessions[s].tokens = <<>>
        /\ Obtained(t) /\ sessions[t].tokens # <<>>
        /\ sessions[s].kb = sessions[t].kb
        /\ file = PresentFile(sessions[t].tokens)

====
